---- MODULE Spec2Model ----
(***************************************************************************)
(* Model of the distrobox backup tool (src/main.go): the main menu loop    *)
(* and the four workflows Backup, Restore, Edit and Delete, each a         *)
(* sequence of external commands run on the main goroutine while a         *)
(* spinner goroutine waits for one value on an unbuffered channel.         *)
(*                                                                         *)
(* The container runtime, the orchestration tool and the filesystem are    *)
(* the environment: a command either fails and changes nothing, or         *)
(* succeeds and has its documented effect.                                 *)
(***************************************************************************)
EXTENDS Integers, Sequences, FiniteSets, TLC

(***************************************************************************)
(* Bounds of the model                                                     *)
(***************************************************************************)
\* last second of the Unix clock in which the loop of main lists the
\* containers, a handler is started or an image is named; the clock starts
\* at 1 and stops at MaxTime + 1
MaxTime == 2
\* invalid answers accepted by one selectItem prompt before the model stops
\* offering further invalid ones
MaxPrompts == 1
\* rows in the output of distrobox-list when any output is considered
MaxRows == 3

(***************************************************************************)
(* Values the environment and the user can supply                          *)
(***************************************************************************)
Names == {"dev", "box"}
IdOf(n) == IF n = "dev" THEN "1" ELSE "2"
ImageOf(n) == IF n = "dev" THEN "img:latest" ELSE "fedora:40"
Container(n) == [Name |-> n, ID |-> IdOf(n), Image |-> ImageOf(n)]
NoContainer == [Name |-> "", ID |-> "", Image |-> ""]

\* sets of commands found on the PATH
Installs ==
  { {"distrobox", "podman", "docker"}, {"distrobox", "docker"},
    {"podman", "docker"}, {"distrobox"} }

UserHome == "/home/u"
Dirs == {"/tmp/b"}
BackupNames == {"dev1"}
ArchiveImage == "myimg:123"
OldContent == "old"
NoFile == "<absent>"

(***************************************************************************)
(* strings.TrimSpace, strings.Contains and strings.SplitN on a line given  *)
(* as a sequence of tokens; Marker is the token "Loaded image:".           *)
(***************************************************************************)
Marker == "Loaded image:"
Space == " "

RECURSIVE TrimLeft(_)
TrimLeft(s) == IF s # <<>> /\ Head(s) = Space THEN TrimLeft(Tail(s)) ELSE s

RECURSIVE TrimRight(_)
TrimRight(s) ==
  IF s # <<>> /\ s[Len(s)] = Space THEN TrimRight(SubSeq(s, 1, Len(s) - 1)) ELSE s

TrimSpace(s) == TrimRight(TrimLeft(s))

RECURSIVE Concat(_)
Concat(s) == IF s = <<>> THEN "" ELSE Head(s) \o Concat(Tail(s))

Contains(line, tok) == \E i \in 1..Len(line) : line[i] = tok

FirstIndex(line, tok) == CHOOSE i \in 1..Len(line) :
                            line[i] = tok /\ \A j \in 1..(i - 1) : line[j] # tok

\* strings.SplitN(line, tok, 2)[1] for a line that contains tok
AfterFirst(line, tok) == SubSeq(line, FirstIndex(line, tok) + 1, Len(line))

\* variant of ExtractLoadedImage: what follows the marker is not trimmed
RECURSIVE ExtractLoadedImageUntrimmed(_)
ExtractLoadedImageUntrimmed(lines) ==
  IF lines = <<>> THEN ""
  ELSE IF Contains(Head(lines), Marker)
       THEN Concat(AfterFirst(Head(lines), Marker))
       ELSE ExtractLoadedImageUntrimmed(Tail(lines))

\* the loop of handleRestore that finds the loaded image in the load output:
\* the first line containing the marker decides, whatever follows it
RECURSIVE ExtractLoadedImage(_)
ExtractLoadedImage(lines) ==
  IF lines = <<>> THEN ""
  ELSE IF Contains(Head(lines), Marker)
       THEN Concat(TrimSpace(AfterFirst(Head(lines), Marker)))
       ELSE ExtractLoadedImage(Tail(lines))

\* what the load command can print when it has loaded image img: the marker
\* line alone, first, in the middle or last among log lines, no marker line
\* at all, and a marker line with nothing after it ahead of the real one
LoadOutputs(img) ==
  { << <<Marker, Space, img>> >>,
    << <<Marker, img>>,
       <<"Copying blob">>,
       <<"Writing manifest">> >>,
    << <<"Getting image source signatures">>,
       <<"log:", Space, Marker, Space, img, Space>>,
       <<"Writing manifest">> >>,
    << <<"Getting image source signatures">>,
       <<"Writing manifest">>,
       <<Marker, Space, Space, img, Space>> >>,
    << <<"Writing manifest">> >>,
    << <<Marker, Space>>, <<Marker, Space, img>> >> }

\* the image held by an archive: the one a backup saved into it, or the
\* image of an archive that was there from the start
ImageIn(content) == IF content = OldContent THEN ArchiveImage ELSE content

(***************************************************************************)
(* strconv.Atoi on a line given as a sequence of characters                *)
(***************************************************************************)
Digits == {"0", "1", "2", "3", "4", "5", "6", "7", "8", "9"}
DigitVal(c) ==
  CASE c = "0" -> 0 [] c = "1" -> 1 [] c = "2" -> 2 [] c = "3" -> 3
    [] c = "4" -> 4 [] c = "5" -> 5 [] c = "6" -> 6 [] c = "7" -> 7
    [] c = "8" -> 8 [] c = "9" -> 9

RECURSIVE DigitsVal(_)
DigitsVal(s) ==
  IF s = <<>> THEN 0 ELSE DigitsVal(SubSeq(s, 1, Len(s) - 1)) * 10 + DigitVal(s[Len(s)])

AllDigits(s) == s # <<>> /\ \A i \in 1..Len(s) : s[i] \in Digits

Atoi(s) ==
  IF s # <<>> /\ Head(s) \in {"+", "-"}
  THEN IF AllDigits(Tail(s))
       THEN [ok |-> TRUE,
             val |-> IF Head(s) = "-" THEN 0 - DigitsVal(Tail(s)) ELSE DigitsVal(Tail(s))]
       ELSE [ok |-> FALSE, val |-> 0]
  ELSE IF AllDigits(s) THEN [ok |-> TRUE, val |-> DigitsVal(s)]
       ELSE [ok |-> FALSE, val |-> 0]

\* lines the user can type at a numeric prompt, before readUserInput trims them
NumberLines ==
  { <<>>, <<" ">>, <<"0">>, <<"1">>, <<"2">>, <<" ", "2", " ">>, <<"3">>, <<"4">>,
    <<"5">>, <<"6">>, <<"-", "1">>, <<"x">>, <<"1", "2">> }

\* readUserInput: the line, trimmed
readUserInput(line) == TrimSpace(line)

\* answers the user can type at a y/N prompt, and strings.ToLower of each
Answers == {"y", "Y", "n", "yes", ""}
ToLower(a) == IF a = "Y" THEN "y" ELSE a
\* variant of confirmAction: anything but "n" is a yes
confirmActionDefaultYes(a) == ToLower(a) # "n"

confirmAction(a) == ToLower(a) = "y"

(***************************************************************************)
(* Paths                                                                   *)
(***************************************************************************)
\* variant of BackupPath: the extension is not appended
BackupPathNoExtension(destDir, backupName) == destDir \o "/" \o backupName

\* filepath.Join(destDir, backupName + ".tar") for a clean destDir
BackupPath(destDir, backupName) == destDir \o "/" \o backupName \o ".tar"

\* filepath.Join(homeDir, ".local", "share", "distrobox", "homes", name)
HomePath(homeDir, name) == homeDir \o "/.local/share/distrobox/homes/" \o name

Paths == {BackupPath(d, n) : d \in Dirs, n \in BackupNames}

(***************************************************************************)
(* State                                                                   *)
(***************************************************************************)
VARIABLES
  installed,        \* environment: commands found on the PATH
  homeSet,          \* environment: os.UserHomeDir succeeds (HOME is set)
  envContainers,    \* environment: names of the containers that exist
  images,           \* environment: images known to the container runtime
  files,            \* environment: content of each archive path, or NoFile
  homes,            \* environment: directories present under .../homes
  now,              \* the Unix clock, in seconds
  containerRuntime, \* global: "podman" or "docker" once selected
  containers,       \* main: the list fetched at the top of the loop
  pc,               \* main goroutine: where it is
  wf,               \* the handler that is running or has just returned
  loc,              \* locals of the running handler
  tries,            \* invalid answers given to the current selectItem prompt
  spinner,          \* spinner goroutine of the current done channel
  spawned,          \* spinner goroutines started by the running handler
  signals,          \* values received from done channels in this handler
  answers,          \* what the user typed at the y/N prompts of the handler
  cmds,             \* runCommand and os.RemoveAll calls since the menu was shown
  msgs              \* log lines on the screen

envVars == <<installed, homeSet, envContainers, images, files, homes>>
spinVars == <<spinner, spawned, signals>>
vars == <<installed, homeSet, envContainers, images, files, homes, now,
          containerRuntime, containers, pc, wf, loc, tries,
          spinner, spawned, signals, answers, cmds, msgs>>

NoLocals ==
  [ containerIndex |-> 0, selectedContainer |-> NoContainer, destDir |-> "", backupName |-> "", backupFile |-> "", tempImageName |-> "",
    err |-> FALSE, output |-> <<>>, loadedImage |-> "", containerName |-> "",
    args |-> <<>>, isIsolated |-> FALSE, isolatedHomePath |-> "", targetType |-> "",
    out |-> <<>>, stderr |-> <<>> ]

Msg(lvl, text, a) == [lvl |-> lvl, text |-> text, args |-> a]
logError(text, a) == Msg("ERROR", text, a)
logWarning(text, a) == Msg("WARN", text, a)
logInfo(text, a) == Msg("INFO", text, a)
logSuccess(text, a) == Msg("SUCCESS", text, a)

\* one call of runCommand: the command line, where it is issued, how it ended
Cmd(line, name, a, ok) == [line |-> line, name |-> name, args |-> a, ok |-> ok]

\* the containers distrobox-list reports, in a fixed order
ListOf(S) ==
  (IF "dev" \in S THEN <<Container("dev")>> ELSE <<>>)
    \o (IF "box" \in S THEN <<Container("box")>> ELSE <<>>)

(***************************************************************************)
(* The output of distrobox-list, each line a sequence of characters, and   *)
(* the loop of getContainers that reads the containers from it.            *)
(***************************************************************************)
\* the phrase "No distroboxes found", kept in one piece
Sentinel == "No distroboxes found"

HeaderRow == <<"I", "D", "|", "N", "A", "M", "E", "|", "S", "T", "A", "T", "U", "S", "|", "I", "M", "A", "G", "E">>
SeparatorRow == <<"-", "-", "|", "-", "-", "|", "-", "-", "|", "-", "-">>
DataRow == <<"1", "|", "d", "e", "v", "|", "U", "p", "|", "i", "m", "g", ":", "l", "a", "t", "e", "s", "t">>
ShortRow == <<"2", "|", "b", "o", "x">>
SpacedRow == <<" ", "2", " ", "|", " ", "b", "o", "x", " ", "|", " ", "U", "p", " ", "|", " ", "f", "e", "d", "o", "r", "a", ":", "4", "0", " ">>
LogRow == <<"w", "a", "r", "n">>
SentinelRow == <<"!", " ", Sentinel>>

\* strings.Contains(s, sub)
ContainsStr(s, sub) ==
  \E i \in 1..(Len(s) - Len(sub) + 1) : SubSeq(s, i, i + Len(sub) - 1) = sub

\* strings.Split(s, sep) for a separator of one character
RECURSIVE Split(_, _)
Split(s, sep) ==
  IF \A i \in 1..Len(s) : s[i] # sep THEN <<s>>
  ELSE LET k == CHOOSE i \in 1..Len(s) : s[i] = sep /\ \A j \in 1..(i - 1) : s[j] # sep
       IN <<SubSeq(s, 1, k - 1)>> \o Split(SubSeq(s, k + 1, Len(s)), sep)

\* lines 616-626: the containers one line adds to the list, none or one
ParseLine(line) ==
  IF \/ ~ContainsStr(line, <<"|">>)
     \/ ContainsStr(line, <<"I", "D">>)
     \/ ContainsStr(line, <<"N", "A", "M", "E">>)
  THEN <<>>
  ELSE LET parts == Split(line, "|") IN
       IF Len(parts) >= 4
       THEN << [Name |-> Concat(TrimSpace(parts[2])),
                ID |-> Concat(TrimSpace(parts[1])),
                Image |-> Concat(TrimSpace(parts[4]))] >>
       ELSE <<>>

\* lines 613-628: the loop over the lines of the output
RECURSIVE ParseListing(_)
ParseListing(lines) ==
  IF lines = <<>> THEN <<>> ELSE ParseLine(Head(lines)) \o ParseListing(Tail(lines))

\* the characters of the identifiers, names and images of the containers
Chars(str) ==
  CASE str = "1" -> <<"1">>
    [] str = "2" -> <<"2">>
    [] str = "dev" -> <<"d", "e", "v">>
    [] str = "box" -> <<"b", "o", "x">>
    [] str = "img:latest" -> <<"i", "m", "g", ":", "l", "a", "t", "e", "s", "t">>
    [] str = "fedora:40" -> <<"f", "e", "d", "o", "r", "a", ":", "4", "0">>

\* the row distrobox-list prints for a container
Row(c) ==
  Chars(c.ID) \o <<" ", "|", " ">> \o Chars(c.Name) \o <<" ", "|", " ", "U", "p", " ", "|", " ">>
    \o Chars(c.Image)

\* what distrobox-list prints for the containers S: the header, one row for
\* each container, and the empty line after the last newline
Listing(S) ==
  << <<"I", "D", " ", "|", " ", "N", "A", "M", "E", " ", "|", " ", "S", "T", "A", "T", "U", "S", " ", "|", " ", "I", "M", "A", "G", "E">> >>
    \o [i \in 1..Len(ListOf(S)) |-> Row(ListOf(S)[i])] \o << <<>> >>

\* what the call of distrobox-list can return: whether it failed, what it
\* wrote to its standard output (the only stream Output() returns) and to
\* its standard error
ListResult(err, out, stderr) == [err |-> err, out |-> out, stderr |-> stderr]

\* os.UserHomeDir
UserHomeDir == [err |-> ~homeSet, dir |-> IF homeSet THEN UserHome ELSE ""]

\* getIsolatedHomePath
getIsolatedHomePath(containerName) ==
  IF UserHomeDir.err THEN [err |-> TRUE, path |-> ""]
  ELSE [err |-> FALSE, path |-> HomePath(UserHomeDir.dir, containerName)]

\* isContainerIsolated: os.Stat of the isolated home path
isContainerIsolated(containerName) ==
  LET p == getIsolatedHomePath(containerName) IN
  IF p.err THEN [isIsolated |-> FALSE, path |-> ""]
  ELSE IF p.path \in homes THEN [isIsolated |-> TRUE, path |-> p.path]
       ELSE [isIsolated |-> FALSE, path |-> ""]

\* os.Stat on an archive path: its content, or NoFile
Stat(p) == IF p \in DOMAIN files THEN files[p] ELSE NoFile

\* the archive written by a successful save
WriteFile(p, c) == [q \in DOMAIN files \cup {p} |-> IF q = p THEN c ELSE files[q]]

\* fmt.Sprintf("%s%s:%d", prefix, id, time.Now().Unix())
TempImageName(prefix, id, t) == prefix \o id \o ":" \o ToString(t)

\* The environments the process is started in.  With every command installed,
\* HOME set and two containers: each combination of an archive and an
\* isolated home being there or not; besides these, one environment without
\* containers, one without HOME, and one for each other set of commands.
Init ==
  /\ installed \in Installs
  /\ homeSet \in BOOLEAN
  /\ envContainers \in {{}, Names}
  /\ images = {}
  /\ files \in [Paths -> {NoFile, OldContent}]
  /\ homes \in {{}, {HomePath(UserHome, "dev")}}
  /\ ~homeSet \/ envContainers = {} =>
       /\ homes = {}
       /\ \A p \in Paths : files[p] = OldContent
       /\ installed = {"distrobox", "podman", "docker"}
       /\ homeSet \/ envContainers # {}
  /\ installed # {"distrobox", "podman", "docker"} =>
       /\ homes = {}
       /\ \A p \in Paths : files[p] = NoFile
  /\ now = 1
  /\ containerRuntime = ""
  /\ containers = <<>>
  /\ pc = "main"
  /\ wf = "none"
  /\ loc = NoLocals
  /\ tries = 0
  /\ spinner = "none"
  /\ spawned = 0
  /\ signals = 0
  /\ answers = <<>>
  /\ cmds = <<>>
  /\ msgs = <<>>

(***************************************************************************)
(* Spinner goroutine and the done channel                                  *)
(***************************************************************************)
\* go showSpinner(message, done) on a fresh channel
StartSpinner ==
  /\ spinner' = "running"
  /\ spawned' = spawned + 1
  /\ UNCHANGED signals

\* done <- true on the unbuffered channel: completes only together with the
\* receive in showSpinner, after which the spinner returns
SendDone ==
  /\ spinner = "running"
  /\ spinner' = "exited"
  /\ signals' = signals + 1
  /\ UNCHANGED spawned

\* the handler returns to the loop of main at once; loc keeps the last
\* values of its locals until the menu is shown again
ReturnAtOnce ==
  /\ pc' = "loop"
  /\ tries' = 0
  /\ UNCHANGED loc

\* time.Sleep, then the handler returns
Return ==
  /\ pc' = "sleep"
  /\ tries' = 0
  /\ UNCHANGED loc

\* the time.Sleep of a few seconds that precedes a return: the clock has
\* moved on when the main goroutine is back in the loop of main
Sleep ==
  /\ pc = "sleep"
  /\ now' = IF now <= MaxTime THEN now + 1 ELSE now
  /\ pc' = "loop"
  /\ UNCHANGED <<envVars, containerRuntime, containers, wf, loc, tries, spinVars,
                 answers, cmds, msgs>>

(***************************************************************************)
(* main, checkDependencies, getContainers, handleUserChoice                *)
(***************************************************************************)
\* variant of checkDependencies: without a container runtime the process
\* goes on
checkDependenciesNoRuntimeCheck ==
  /\ pc = "main"
  /\ IF "distrobox" \notin installed
     THEN /\ msgs' = Append(msgs, logError("FATAL: 'distrobox' command not found", <<>>))
          /\ pc' = "exit1"
          /\ UNCHANGED <<containerRuntime, cmds>>
     ELSE /\ \E ok \in BOOLEAN : cmds' = <<Cmd(541, "distrobox", <<"--version">>, ok)>>
          /\ IF "podman" \in installed
             THEN /\ containerRuntime' = "podman"
                  /\ msgs' = Append(msgs, logInfo("Using '%s' as the container runtime.", <<"podman">>))
                  /\ pc' = "loop"
             ELSE /\ containerRuntime' = IF "docker" \in installed THEN "docker" ELSE ""
                  /\ msgs' = Append(msgs, logInfo("Using '%s' as the container runtime.", <<containerRuntime'>>))
                  /\ pc' = "loop"
  /\ UNCHANGED <<envVars, now, containers, wf, loc, tries, spinVars, answers>>

\* checkDependencies: distrobox is looked for and asked its version, then a
\* container runtime is looked for, podman first
checkDependencies ==
  /\ pc = "main"
  /\ IF "distrobox" \notin installed
     THEN /\ msgs' = Append(msgs, logError("FATAL: 'distrobox' command not found", <<>>))
          /\ pc' = "exit1"
          /\ UNCHANGED <<containerRuntime, cmds>>
     ELSE /\ \E ok \in BOOLEAN : cmds' = <<Cmd(541, "distrobox", <<"--version">>, ok)>>
          /\ IF "podman" \in installed
             THEN /\ containerRuntime' = "podman"
                  /\ msgs' = Append(msgs, logInfo("Using '%s' as the container runtime.", <<"podman">>))
                  /\ pc' = "loop"
             ELSE IF "docker" \in installed
             THEN /\ containerRuntime' = "docker"
                  /\ msgs' = Append(msgs, logInfo("Using '%s' as the container runtime.", <<"docker">>))
                  /\ pc' = "loop"
             ELSE /\ msgs' = Append(msgs, logError("FATAL: Neither 'podman' nor 'docker' command found.", <<>>))
                  /\ pc' = "exit1"
                  /\ UNCHANGED containerRuntime
  /\ UNCHANGED <<envVars, now, containers, wf, loc, tries, spinVars, answers>>

\* what distrobox-list does: it lists the containers, or it fails; when it
\* fails with no container to list it may say so, on either stream
ListOutcomes ==
  { ListResult(FALSE, Listing(envContainers), <<>>),
    ListResult(TRUE, <<>>, << <<"e", "r", "r", "o", "r">> >>) }
  \cup (IF envContainers = {}
        THEN { ListResult(TRUE, <<SentinelRow, <<>> >>, <<>>),
               ListResult(TRUE, <<>>, <<SentinelRow, <<>> >>) }
        ELSE {})

\* strings.Contains(string(out), "No distroboxes found")
HasSentinel(out) == \E i \in 1..Len(out) : ContainsStr(out[i], <<Sentinel>>)

\* variant of getContainersOf: a failed listing is always an error
getContainersNoSentinel(r) ==
  IF r.err THEN [containers |-> <<>>, err |-> TRUE]
  ELSE [containers |-> ParseListing(r.out), err |-> FALSE]

\* getContainers on the result r of the call of distrobox-list
getContainersOf(r) ==
  IF r.err
  THEN IF HasSentinel(r.out) THEN [containers |-> <<>>, err |-> FALSE]
       ELSE [containers |-> <<>>, err |-> TRUE]
  ELSE [containers |-> ParseListing(r.out), err |-> FALSE]

\* top of the loop of main with distrobox-list returning one of results:
\* getContainers, then os.Exit(1) on an error, else displayMenu, which clears
\* the screen of what the last handler printed; loc keeps what the command
\* returned until an option is chosen; the loop is followed up to MaxTime
ListStep(results) ==
  /\ pc = "loop"
  /\ now <= MaxTime
  /\ \E r \in results :
       /\ LET got == getContainersOf(r) IN
          IF got.err
          THEN /\ msgs' = Append(msgs, logError("Could not list Distrobox containers.", <<>>))
               /\ pc' = "exit1"
               /\ UNCHANGED containers
          ELSE /\ containers' = got.containers
               /\ pc' = "menu"
               /\ msgs' = <<>>
       /\ loc' = [NoLocals EXCEPT !.err = r.err, !.out = r.out, !.stderr = r.stderr]
  /\ wf' = "none"
  /\ cmds' = <<>>
  /\ spawned' = 0 /\ signals' = 0
  /\ spinner' = IF spinner = "exited" THEN "none" ELSE spinner
  /\ answers' = <<>>
  /\ UNCHANGED <<envVars, now, containerRuntime, tries>>

getContainers == ListStep(ListOutcomes)

\* handleUserChoice up to the call of the handler it selects
handleUserChoice ==
  /\ pc = "menu"
  /\ \E line \in NumberLines :
       LET choiceStr == readUserInput(line)
           choice == Atoi(choiceStr)
           start(w, p) == /\ now <= MaxTime
                          /\ wf' = w /\ pc' = p /\ msgs' = <<>>
           back(m) == /\ pc' = "sleep" /\ msgs' = m /\ UNCHANGED wf
       IN
       IF choiceStr = <<>> THEN /\ pc' = "loop" /\ msgs' = <<>> /\ UNCHANGED wf
       ELSE IF ~choice.ok
       THEN back(<<logWarning("Invalid option. Please enter a number.", <<>>)>>)
       ELSE CASE choice.val = 1 ->
                   IF Len(containers) = 0
                   THEN back(<<logWarning("No containers available to backup.", <<>>)>>)
                   ELSE start("backup", "b_select")
              [] choice.val = 2 -> start("restore", "r_file")
              [] choice.val = 3 ->
                   IF Len(containers) = 0
                   THEN back(<<logWarning("No containers available to delete.", <<>>)>>)
                   ELSE start("delete", "d_select")
              [] choice.val = 4 ->
                   IF Len(containers) = 0
                   THEN back(<<logWarning("No containers available to edit.", <<>>)>>)
                   ELSE start("edit", "e_select")
              [] choice.val = 5 ->
                   /\ pc' = "exit0" /\ msgs' = <<>> /\ UNCHANGED wf
              [] OTHER ->
                   back(<<logWarning("Invalid option. Please try again.", <<>>)>>)
  /\ loc' = NoLocals
  /\ UNCHANGED <<envVars, now, containerRuntime, containers, tries, spinVars, cmds, answers>>

(***************************************************************************)
(* selectItem                                                              *)
(***************************************************************************)
\* variant of selectItem: the upper bound is not checked
selectItemNoUpperBound(line, max) ==
  LET input == readUserInput(line)
      choice == Atoi(input)
  IN IF input = <<>> THEN [retry |-> FALSE, val |-> 0]
     ELSE IF choice.ok /\ choice.val > 0
          THEN [retry |-> FALSE, val |-> choice.val]
          ELSE [retry |-> TRUE, val |-> 0]

\* one round of the loop of selectItem on the typed line: "retry" when the
\* prompt is shown again, else the value returned
selectItem(line, max) ==
  LET input == readUserInput(line)
      choice == Atoi(input)
  IN IF input = <<>> THEN [retry |-> FALSE, val |-> 0]
     ELSE IF choice.ok /\ choice.val > 0 /\ choice.val <= max
          THEN [retry |-> FALSE, val |-> choice.val]
          ELSE [retry |-> TRUE, val |-> 0]

\* the prompt is shown again after an invalid answer
Reprompt(max) ==
  /\ tries < MaxPrompts
  /\ tries' = tries + 1
  /\ msgs' = Append(msgs, logWarning("Invalid input. Please enter a number between 1 and %d.",
                                     <<ToString(max)>>))
  /\ UNCHANGED <<envVars, now, containerRuntime, containers, pc, wf, loc,
                 spinVars, cmds, answers>>

\* containers[containerIndex-1] with the index out of range: the Go runtime
\* panics and the process ends
IndexPanic ==
  /\ pc' = "panic"
  /\ UNCHANGED <<loc, tries>>

(***************************************************************************)
(* handleBackup                                                            *)
(***************************************************************************)
\* 1. selectItem on the container list
BackupSelect ==
  /\ pc = "b_select"
  /\ \E line \in NumberLines :
       LET r == selectItem(line, Len(containers)) IN
       IF r.retry THEN Reprompt(Len(containers))
       ELSE /\ IF r.val = 0
               THEN ReturnAtOnce
               ELSE IF r.val \notin 1..Len(containers)
               THEN IndexPanic
               ELSE /\ loc' = [loc EXCEPT !.containerIndex = r.val,
                                         !.selectedContainer = containers[r.val]]
                    /\ pc' = "b_dest"
                    /\ tries' = 0
            /\ UNCHANGED <<envVars, now, containerRuntime, containers, wf,
                           spinVars, cmds, msgs, answers>>

\* 2. selectDirectory returns a directory, nothing, or an error
BackupDest ==
  /\ pc = "b_dest"
  /\ \E r \in [err : {FALSE}, dir : Dirs \cup {""}] \cup {[err |-> TRUE, dir |-> ""]} :
       IF r.err \/ r.dir = ""
       THEN /\ msgs' = Append(Append(msgs, logInfo("Please choose a backup destination folder.", <<>>)),
                              logError("No valid destination directory selected. Aborting.", <<>>))
            /\ Return
       ELSE /\ msgs' = Append(msgs, logInfo("Please choose a backup destination folder.", <<>>))
            /\ loc' = [loc EXCEPT !.destDir = r.dir]
            /\ pc' = "b_name"
            /\ UNCHANGED tries
  /\ UNCHANGED <<envVars, now, containerRuntime, containers, wf, spinVars, cmds, answers>>

\* 3. the backup name; backupFile is destDir/name.tar
BackupName ==
  /\ pc = "b_name"
  /\ \E backupName \in BackupNames \cup {""} :
       IF backupName = ""
       THEN /\ msgs' = Append(msgs, logWarning("Backup name cannot be empty. Aborting.", <<>>))
            /\ Return
       ELSE /\ loc' = [loc EXCEPT !.backupName = backupName,
                                 !.backupFile = BackupPath(loc.destDir, backupName)]
            /\ pc' = "b_stat"
            /\ UNCHANGED <<msgs, tries>>
  /\ UNCHANGED <<envVars, now, containerRuntime, containers, wf, spinVars, cmds, answers>>

\* lines 167-172: the temp image is named from the clock and the spinner starts
BackupBegin ==
  /\ \E t \in now..MaxTime :
       /\ now' = t
       /\ loc' = [loc EXCEPT !.tempImageName =
                    TempImageName("distrobox-backup-", loc.selectedContainer.ID, t)]
  /\ msgs' = Append(msgs, logInfo("Backing up '%s' to '%s'...",
                                  <<loc.selectedContainer.Name, loc.backupFile>>))
  /\ StartSpinner
  /\ pc' = "b_commit"
  /\ tries' = 0

\* 4. os.Stat(backupFile): an existing file needs a confirmation
BackupOverwrite ==
  /\ pc = "b_stat"
  /\ IF Stat(loc.backupFile) # NoFile
     THEN \E a \in Answers :
            /\ answers' = Append(answers, a)
            /\ IF ~confirmAction(a)
               THEN /\ msgs' = Append(msgs, logInfo("Backup cancelled by user.", <<>>))
                    /\ Return
                    /\ UNCHANGED <<now, spinVars>>
               ELSE BackupBegin
     ELSE /\ BackupBegin
          /\ UNCHANGED answers
  /\ UNCHANGED <<envVars, containerRuntime, containers, wf, cmds>>

\* variant of BackupCommit: a commit that fails is tried a second time
BackupCommitRetriesOnce ==
  /\ pc = "b_commit"
  /\ \E ok \in BOOLEAN :
       /\ cmds' = Append(cmds, Cmd(175, containerRuntime,
                            <<"commit", loc.selectedContainer.Name, loc.tempImageName>>, ok))
       /\ images' = IF ok THEN images \cup {loc.tempImageName} ELSE images
       /\ pc' = IF ok THEN "b_save" ELSE IF cmds = <<>> THEN "b_commit" ELSE "b_send177"
  /\ UNCHANGED <<installed, homeSet, envContainers, files, homes, now, containerRuntime,
                 containers, wf, loc, tries, spinVars, msgs, answers>>

\* runCommand(containerRuntime, "commit", name, tempImageName)
BackupCommit ==
  /\ pc = "b_commit"
  /\ \E ok \in BOOLEAN :
       /\ cmds' = Append(cmds, Cmd(175, containerRuntime,
                            <<"commit", loc.selectedContainer.Name, loc.tempImageName>>, ok))
       /\ images' = IF ok THEN images \cup {loc.tempImageName} ELSE images
       /\ pc' = IF ok THEN "b_save" ELSE "b_send177"
  /\ UNCHANGED <<installed, homeSet, envContainers, files, homes, now, containerRuntime,
                 containers, wf, loc, tries, spinVars, msgs, answers>>

\* lines 177-181
BackupCommitFailed ==
  /\ pc = "b_send177"
  /\ SendDone
  /\ msgs' = Append(Append(msgs, logError("Failed to commit container.", <<>>)),
                     logError("command '%s' failed", <<"commit">>))
  /\ Return
  /\ UNCHANGED <<envVars, now, containerRuntime, containers, wf, cmds, answers>>

\* runCommand(containerRuntime, "save", "-o", backupFile, tempImageName)
BackupSave ==
  /\ pc = "b_save"
  /\ \E ok \in BOOLEAN :
       /\ cmds' = Append(cmds, Cmd(185, containerRuntime,
                            <<"save", "-o", loc.backupFile, loc.tempImageName>>, ok))
       /\ files' = IF ok THEN WriteFile(loc.backupFile, loc.tempImageName) ELSE files
       /\ pc' = IF ok THEN "b_rmi" ELSE "b_send187"
  /\ UNCHANGED <<installed, homeSet, envContainers, images, homes, now, containerRuntime,
                 containers, wf, loc, tries, spinVars, msgs, answers>>

\* lines 187-188
BackupSaveFailed ==
  /\ pc = "b_send187"
  /\ SendDone
  /\ msgs' = Append(msgs, logError("Failed to save image to tar file.", <<>>))
  /\ pc' = "b_rmi190"
  /\ UNCHANGED <<envVars, now, containerRuntime, containers, wf, loc, tries, cmds, answers>>

\* variant of BackupSaveCleanup: the return of line 192 is missing
BackupSaveCleanupFallsThrough ==
  /\ pc = "b_rmi190"
  /\ \E ok \in BOOLEAN :
       /\ cmds' = Append(cmds, Cmd(190, containerRuntime, <<"rmi", loc.tempImageName>>, ok))
       /\ images' = IF ok THEN images \ {loc.tempImageName} ELSE images
  /\ pc' = "b_rmi"
  /\ UNCHANGED <<installed, homeSet, envContainers, files, homes, now, containerRuntime,
                 containers, wf, loc, tries, spinVars, msgs, answers>>

\* lines 190-192: the cleanup after a failed save, its result dropped
BackupSaveCleanup ==
  /\ pc = "b_rmi190"
  /\ \E ok \in BOOLEAN :
       /\ cmds' = Append(cmds, Cmd(190, containerRuntime, <<"rmi", loc.tempImageName>>, ok))
       /\ images' = IF ok THEN images \ {loc.tempImageName} ELSE images
  /\ Return
  /\ UNCHANGED <<installed, homeSet, envContainers, files, homes, now, containerRuntime,
                 containers, wf, spinVars, msgs, answers>>

\* line 196: runCommand(containerRuntime, "rmi", tempImageName)
BackupRmi ==
  /\ pc = "b_rmi"
  /\ \E ok \in BOOLEAN :
       /\ cmds' = Append(cmds, Cmd(196, containerRuntime, <<"rmi", loc.tempImageName>>, ok))
       /\ images' = IF ok THEN images \ {loc.tempImageName} ELSE images
       /\ pc' = IF ok THEN "b_send203" ELSE "b_send198"
  /\ UNCHANGED <<installed, homeSet, envContainers, files, homes, now, containerRuntime,
                 containers, wf, loc, tries, spinVars, msgs, answers>>

\* lines 198-200: the rmi failed
BackupRmiFailed ==
  /\ pc = "b_send198"
  /\ SendDone
  /\ msgs' = Append(msgs, logWarning("Could not clean up temporary image '%s'. You may want to remove it manually.",
                                     <<loc.tempImageName>>))
  /\ pc' = "b_send203"
  /\ UNCHANGED <<envVars, now, containerRuntime, containers, wf, loc, tries, cmds, answers>>

\* lines 203-205
BackupDone ==
  /\ pc = "b_send203"
  /\ SendDone
  /\ msgs' = Append(msgs, logSuccess("Backup for '%s' completed successfully!",
                                     <<loc.selectedContainer.Name>>))
  /\ Return
  /\ UNCHANGED <<envVars, now, containerRuntime, containers, wf, cmds, answers>>

handleBackup ==
  \/ BackupSelect \/ BackupDest \/ BackupName \/ BackupOverwrite
  \/ BackupCommit \/ BackupCommitFailed \/ BackupSave \/ BackupSaveFailed
  \/ BackupSaveCleanup \/ BackupRmi \/ BackupRmiFailed \/ BackupDone

(***************************************************************************)
(* handleRestore                                                           *)
(***************************************************************************)
\* 1. selectFile, then lines 224-226: the spinner of the load starts
RestoreFile ==
  /\ pc = "r_file"
  /\ \E r \in [err : {FALSE}, path : Paths \cup {""}] \cup {[err |-> TRUE, path |-> ""]} :
       IF r.err \/ r.path = ""
       THEN /\ msgs' = Append(Append(msgs, logInfo("Please choose a backup file (.tar) to restore.", <<>>)),
                              logError("No backup file selected. Aborting.", <<>>))
            /\ Return
            /\ UNCHANGED spinVars
       ELSE /\ msgs' = Append(Append(msgs, logInfo("Please choose a backup file (.tar) to restore.", <<>>)),
                              logInfo("Loading image from '%s'...", <<r.path>>))
            /\ loc' = [loc EXCEPT !.backupFile = r.path]
            /\ StartSpinner
            /\ pc' = "r_load"
            /\ UNCHANGED tries
  /\ UNCHANGED <<envVars, now, containerRuntime, containers, wf, cmds, answers>>

\* 2. runCommand(containerRuntime, "load", "-i", backupFile)
RestoreLoad ==
  /\ pc = "r_load"
  /\ \/ /\ cmds' = Append(cmds, Cmd(228, containerRuntime, <<"load", "-i", loc.backupFile>>, FALSE))
        /\ loc' = [loc EXCEPT !.err = TRUE, !.output = <<>>]
        /\ UNCHANGED images
     \/ /\ Stat(loc.backupFile) # NoFile
        /\ \E out \in LoadOutputs(ImageIn(Stat(loc.backupFile))) :
             /\ cmds' = Append(cmds, Cmd(228, containerRuntime, <<"load", "-i", loc.backupFile>>, TRUE))
             /\ loc' = [loc EXCEPT !.err = FALSE, !.output = out]
             /\ images' = images \cup {ImageIn(Stat(loc.backupFile))}
  /\ pc' = "r_send229"
  /\ UNCHANGED <<installed, homeSet, envContainers, files, homes, now, containerRuntime,
                 containers, wf, tries, spinVars, msgs, answers>>

\* lines 229-255: the signal, then the loaded image is read from the output
RestoreLoaded ==
  /\ pc = "r_send229"
  /\ SendDone
  /\ IF loc.err
     THEN /\ msgs' = Append(Append(msgs, logError("Failed to load image from backup file.", <<>>)),
                            logError("command '%s' failed", <<"load">>))
          /\ Return
     ELSE LET loadedImage == ExtractLoadedImage(loc.output) IN
          IF loadedImage = ""
          THEN /\ msgs' = Append(msgs, logError("Could not determine the name of the loaded image. Aborting.", <<>>))
               /\ Return
          ELSE /\ msgs' = Append(msgs, logSuccess("Image '%s' loaded successfully.", <<loadedImage>>))
               /\ loc' = [loc EXCEPT !.loadedImage = loadedImage]
               /\ pc' = "r_name"
               /\ UNCHANGED tries
  /\ UNCHANGED <<envVars, now, containerRuntime, containers, wf, cmds, answers>>

\* 3. the name of the new container
RestoreName ==
  /\ pc = "r_name"
  /\ \E containerName \in Names \cup {""} :
       IF containerName = ""
       THEN /\ msgs' = Append(msgs, logWarning("Container name cannot be empty. Aborting.", <<>>))
            /\ pc' = "r_rmi263"
            /\ UNCHANGED loc
       ELSE /\ loc' = [loc EXCEPT !.containerName = containerName]
            /\ pc' = "r_type"
            /\ UNCHANGED msgs
  /\ UNCHANGED <<envVars, now, containerRuntime, containers, wf, tries, spinVars, cmds, answers>>

\* variant of RestoreCancelCleanup: the early return removes nothing
RestoreCancelCleanupNoRmi ==
  /\ pc \in {"r_rmi263", "r_rmi275", "r_rmi290"}
  /\ IF pc = "r_rmi275" THEN ReturnAtOnce ELSE Return
  /\ UNCHANGED <<envVars, now, containerRuntime, containers, wf, spinVars, cmds, msgs, answers>>

\* the loaded image is removed before an early return (lines 263, 275, 290),
\* the result dropped
RestoreCancelCleanup ==
  /\ pc \in {"r_rmi263", "r_rmi275", "r_rmi290"}
  /\ \E ok \in BOOLEAN :
       /\ cmds' = Append(cmds, Cmd(CASE pc = "r_rmi263" -> 263 [] pc = "r_rmi275" -> 275
                                     [] pc = "r_rmi290" -> 290,
                                   containerRuntime, <<"rmi", loc.loadedImage>>, ok))
       /\ images' = IF ok THEN images \ {loc.loadedImage} ELSE images
  /\ IF pc = "r_rmi275" THEN ReturnAtOnce ELSE Return
  /\ UNCHANGED <<installed, homeSet, envContainers, files, homes, now, containerRuntime,
                 containers, wf, spinVars, msgs, answers>>

\* 4. selectItem("Select type", 2), then lines 280-300: the arguments of
\* distrobox-create and the spinner of the creation
RestoreType ==
  /\ pc = "r_type"
  /\ \E line \in NumberLines :
       LET r == selectItem(line, 2)
           base == <<"--name", loc.containerName, "--image", loc.loadedImage>>
           home == UserHomeDir
           isolatedHomePath == HomePath(home.dir, loc.containerName)
       IN
       IF r.retry THEN Reprompt(2)
       ELSE /\ IF r.val = 0
               THEN /\ pc' = "r_rmi275"
                    /\ UNCHANGED <<loc, spinVars, msgs>>
               ELSE /\ StartSpinner
                    /\ IF r.val = 2
                       THEN IF home.err
                            THEN /\ loc' = [loc EXCEPT !.args = base]
                                 /\ pc' = "r_send288"
                                 /\ UNCHANGED msgs
                            ELSE /\ loc' = [loc EXCEPT !.args = base \o <<"--home", isolatedHomePath>>]
                                 /\ msgs' = Append(Append(msgs,
                                              logInfo("Creating new ISOLATED container '%s'...", <<loc.containerName>>)),
                                              logInfo("Container home will be at: %s", <<isolatedHomePath>>))
                                 /\ pc' = "r_create"
                       ELSE /\ loc' = [loc EXCEPT !.args = base]
                            /\ msgs' = Append(msgs,
                                         logInfo("Creating new STANDARD container '%s'...", <<loc.containerName>>))
                            /\ pc' = "r_create"
            /\ tries' = 0
            /\ UNCHANGED <<envVars, now, containerRuntime, containers, wf, cmds, answers>>

\* lines 288-289: os.UserHomeDir failed
RestoreNoHome ==
  /\ pc = "r_send288"
  /\ SendDone
  /\ msgs' = Append(msgs, logError("Could not determine user home directory. Aborting isolated restore.", <<>>))
  /\ pc' = "r_rmi290"
  /\ UNCHANGED <<envVars, now, containerRuntime, containers, wf, loc, tries, cmds, answers>>

\* the value that follows "--home" in the arguments, or "" without one
HomeArg(a) == IF Len(a) >= 6 /\ a[5] = "--home" THEN a[6] ELSE ""

\* what a successful distrobox-create does: the container exists, and so
\* does the home directory it was given
Created(name, a) ==
  /\ envContainers' = envContainers \cup {name}
  /\ homes' = IF HomeArg(a) # "" THEN homes \cup {HomeArg(a)} ELSE homes

\* 5. runCommand("distrobox-create", args...)
RestoreCreate ==
  /\ pc = "r_create"
  /\ \E ok \in BOOLEAN :
       /\ cmds' = Append(cmds, Cmd(302, "distrobox-create", loc.args, ok))
       /\ loc' = [loc EXCEPT !.err = ~ok]
       /\ IF ok THEN Created(loc.containerName, loc.args)
          ELSE UNCHANGED <<envContainers, homes>>
  /\ pc' = "r_send303"
  /\ UNCHANGED <<installed, homeSet, images, files, now, containerRuntime,
                 containers, wf, tries, spinVars, msgs, answers>>

\* variant of RestoreCreated: the loaded image is removed after a failed
\* creation too
RestoreCreatedAlwaysCleans ==
  /\ pc = "r_send303"
  /\ SendDone
  /\ IF loc.err
     THEN /\ msgs' = msgs \o
                 << logError("Failed to create container '%s'.", <<loc.containerName>>),
                    logError("command '%s' failed", <<"distrobox-create">>) >>
          /\ pc' = "r_rmi290"
          /\ UNCHANGED <<loc, tries>>
     ELSE /\ pc' = "r_rmi313"
          /\ UNCHANGED <<msgs, loc, tries>>
  /\ UNCHANGED <<envVars, now, containerRuntime, containers, wf, cmds, answers>>

\* lines 303-311
RestoreCreated ==
  /\ pc = "r_send303"
  /\ SendDone
  /\ IF loc.err
     THEN /\ msgs' = msgs \o
                 << logError("Failed to create container '%s'.", <<loc.containerName>>),
                    logError("command '%s' failed", <<"distrobox-create">>),
                    logInfo("The loaded image '%s' was kept. You can try creating the container again manually or remove the image.",
                            <<loc.loadedImage>>) >>
          /\ Return
     ELSE /\ pc' = "r_rmi313"
          /\ UNCHANGED <<msgs, loc, tries>>
  /\ UNCHANGED <<envVars, now, containerRuntime, containers, wf, cmds, answers>>

\* lines 313-316: the loaded image is removed, the result dropped
RestoreDone ==
  /\ pc = "r_rmi313"
  /\ \E ok \in BOOLEAN :
       /\ cmds' = Append(cmds, Cmd(313, containerRuntime, <<"rmi", loc.loadedImage>>, ok))
       /\ images' = IF ok THEN images \ {loc.loadedImage} ELSE images
  /\ msgs' = Append(msgs, logSuccess("Container '%s' restored successfully!", <<loc.containerName>>))
  /\ Return
  /\ UNCHANGED <<installed, homeSet, envContainers, files, homes, now, containerRuntime,
                 containers, wf, spinVars, answers>>

handleRestore ==
  \/ RestoreFile \/ RestoreLoad \/ RestoreLoaded \/ RestoreName
  \/ RestoreCancelCleanup \/ RestoreType \/ RestoreNoHome \/ RestoreCreate
  \/ RestoreCreated \/ RestoreDone

(***************************************************************************)
(* handleEdit                                                              *)
(***************************************************************************)
\* 1-2. selectItem on the container list, then the container is classified
EditSelect ==
  /\ pc = "e_select"
  /\ \E line \in NumberLines :
       LET r == selectItem(line, Len(containers)) IN
       IF r.retry THEN Reprompt(Len(containers))
       ELSE /\ IF r.val = 0
               THEN /\ ReturnAtOnce
                    /\ UNCHANGED msgs
               ELSE IF r.val \notin 1..Len(containers)
               THEN /\ IndexPanic
                    /\ UNCHANGED msgs
               ELSE LET c == containers[r.val]
                        k == isContainerIsolated(c.Name)
                    IN /\ loc' = [loc EXCEPT !.containerIndex = r.val,
                                             !.selectedContainer = c,
                                             !.isIsolated = k.isIsolated,
                                             !.isolatedHomePath = k.path,
                                             !.targetType = IF k.isIsolated THEN "STANDARD"
                                                            ELSE "ISOLATED"]
                       /\ msgs' = Append(msgs,
                                    IF k.isIsolated
                                    THEN logInfo("Container '%s' is currently ISOLATED. Convert to STANDARD?", <<c.Name>>)
                                    ELSE logInfo("Container '%s' is currently STANDARD. Convert to ISOLATED?", <<c.Name>>))
                       /\ pc' = "e_confirm1"
                       /\ tries' = 0
            /\ UNCHANGED <<envVars, now, containerRuntime, containers, wf,
                           spinVars, cmds, answers>>

\* variant of EditConfirm: no second confirmation for an isolated container
EditConfirmOnce ==
  /\ pc = "e_confirm1"
  /\ \E a \in Answers :
       /\ answers' = Append(answers, a)
       /\ IF ~confirmAction(a)
          THEN /\ msgs' = Append(msgs, logInfo("Edit cancelled.", <<>>))
               /\ Return
               /\ UNCHANGED spinVars
          ELSE /\ StartSpinner
               /\ pc' = "e_stop"
               /\ UNCHANGED <<loc, tries, msgs>>
  /\ UNCHANGED <<envVars, now, containerRuntime, containers, wf, cmds>>

\* lines 348-365: the first confirmation; an isolated container is warned
\* about and needs a second one
EditConfirm ==
  /\ pc = "e_confirm1"
  /\ \E a \in Answers :
       /\ answers' = Append(answers, a)
       /\ IF ~confirmAction(a)
          THEN /\ msgs' = Append(msgs, logInfo("Edit cancelled.", <<>>))
               /\ Return
               /\ UNCHANGED spinVars
          ELSE IF loc.isIsolated
          THEN /\ msgs' = msgs \o
                     << logWarning("Converting to STANDARD will PERMANENTLY DELETE the isolated home directory:", <<>>),
                        logWarning("%s", <<loc.isolatedHomePath>>),
                        logWarning("All data inside will be lost.", <<>>) >>
               /\ pc' = "e_confirm2"
               /\ UNCHANGED <<loc, tries, spinVars>>
          ELSE /\ StartSpinner
               /\ pc' = "e_stop"
               /\ UNCHANGED <<loc, tries, msgs>>
  /\ UNCHANGED <<envVars, now, containerRuntime, containers, wf, cmds>>

\* lines 359-369: "Are you absolutely sure?"
EditConfirmAgain ==
  /\ pc = "e_confirm2"
  /\ \E a \in Answers :
       /\ answers' = Append(answers, a)
       /\ IF ~confirmAction(a)
          THEN /\ msgs' = Append(msgs, logInfo("Edit cancelled.", <<>>))
               /\ Return
               /\ UNCHANGED spinVars
          ELSE /\ StartSpinner
               /\ pc' = "e_stop"
               /\ UNCHANGED <<loc, tries, msgs>>
  /\ UNCHANGED <<envVars, now, containerRuntime, containers, wf, cmds>>

\* a. runCommand(containerRuntime, "stop", name)
EditStop ==
  /\ pc = "e_stop"
  /\ \E ok \in BOOLEAN :
       /\ cmds' = Append(cmds, Cmd(372, containerRuntime, <<"stop", loc.selectedContainer.Name>>, ok))
       /\ pc' = IF ok THEN "e_commit" ELSE "e_send374"
  /\ UNCHANGED <<envVars, now, containerRuntime, containers, wf, loc, tries,
                 spinVars, msgs, answers>>

\* variant of EditStopFailed: the failure is logged and the conversion goes on
EditStopFailedGoesOn ==
  /\ pc = "e_send374"
  /\ msgs' = Append(msgs, logError("Failed to stop container '%s'. Aborting.",
                                   <<loc.selectedContainer.Name>>))
  /\ pc' = "e_commit"
  /\ UNCHANGED <<envVars, now, containerRuntime, containers, wf, loc, tries, spinVars,
                 cmds, answers>>

\* lines 374-377
EditStopFailed ==
  /\ pc = "e_send374"
  /\ SendDone
  /\ msgs' = Append(msgs, logError("Failed to stop container '%s'. Aborting.",
                                   <<loc.selectedContainer.Name>>))
  /\ Return
  /\ UNCHANGED <<envVars, now, containerRuntime, containers, wf, cmds, answers>>

\* b. the temp image is named from the clock, then
\* runCommand(containerRuntime, "commit", name, tempImageName)
EditCommit ==
  /\ pc = "e_commit"
  /\ \E t \in now..MaxTime, ok \in BOOLEAN :
       LET tempImageName == TempImageName("distrobox-convert-", loc.selectedContainer.ID, t) IN
       /\ now' = t
       /\ loc' = [loc EXCEPT !.tempImageName = tempImageName]
       /\ cmds' = Append(cmds, Cmd(382, containerRuntime,
                            <<"commit", loc.selectedContainer.Name, tempImageName>>, ok))
       /\ images' = IF ok THEN images \cup {tempImageName} ELSE images
       /\ pc' = IF ok THEN "e_rm" ELSE "e_send384"
  /\ UNCHANGED <<installed, homeSet, envContainers, files, homes, containerRuntime,
                 containers, wf, tries, spinVars, msgs, answers>>

\* lines 384-387
EditCommitFailed ==
  /\ pc = "e_send384"
  /\ SendDone
  /\ msgs' = Append(msgs, logError("Failed to commit container to a temporary image. Aborting.", <<>>))
  /\ Return
  /\ UNCHANGED <<envVars, now, containerRuntime, containers, wf, cmds, answers>>

\* c. runCommand("distrobox-rm", name, "--force")
EditRemove ==
  /\ pc = "e_rm"
  /\ \E ok \in BOOLEAN :
       /\ cmds' = Append(cmds, Cmd(391, "distrobox-rm", <<loc.selectedContainer.Name, "--force">>, ok))
       /\ envContainers' = IF ok THEN envContainers \ {loc.selectedContainer.Name}
                           ELSE envContainers
       /\ pc' = IF ok THEN "e_create" ELSE "e_send393"
  /\ UNCHANGED <<installed, homeSet, images, files, homes, now, containerRuntime,
                 containers, wf, loc, tries, spinVars, msgs, answers>>

\* variant of EditRemoveFailed: the failure is logged and the creation follows
EditRemoveFailedGoesOn ==
  /\ pc = "e_send393"
  /\ msgs' = Append(msgs, logError("Failed to remove the old container. You may need to clean up manually. Aborting.", <<>>))
  /\ pc' = "e_create"
  /\ UNCHANGED <<envVars, now, containerRuntime, containers, wf, loc, tries, spinVars,
                 cmds, answers>>

\* lines 393-394
EditRemoveFailed ==
  /\ pc = "e_send393"
  /\ SendDone
  /\ msgs' = Append(msgs, logError("Failed to remove the old container. You may need to clean up manually. Aborting.", <<>>))
  /\ pc' = "e_rmi395"
  /\ UNCHANGED <<envVars, now, containerRuntime, containers, wf, loc, tries, cmds, answers>>

\* lines 395-397: the temp image is removed, the result dropped
EditRemoveCleanup ==
  /\ pc = "e_rmi395"
  /\ \E ok \in BOOLEAN :
       /\ cmds' = Append(cmds, Cmd(395, containerRuntime, <<"rmi", loc.tempImageName>>, ok))
       /\ images' = IF ok THEN images \ {loc.tempImageName} ELSE images
  /\ Return
  /\ UNCHANGED <<installed, homeSet, envContainers, files, homes, now, containerRuntime,
                 containers, wf, spinVars, msgs, answers>>

\* lines 401-405: the arguments of the creation
EditArgs ==
  LET base == <<"--name", loc.selectedContainer.Name, "--image", loc.tempImageName>> IN
  IF loc.targetType = "ISOLATED"
  THEN base \o <<"--home", getIsolatedHomePath(loc.selectedContainer.Name).path>>
  ELSE base

\* variant of EditCreate: the cleanup of step e follows a failed creation too
EditCreateUnchecked ==
  /\ pc = "e_create"
  /\ \E ok \in BOOLEAN :
       /\ cmds' = Append(cmds, Cmd(407, "distrobox-create", EditArgs, ok))
       /\ loc' = [loc EXCEPT !.args = EditArgs]
       /\ IF ok THEN Created(loc.selectedContainer.Name, EditArgs)
          ELSE UNCHANGED <<envContainers, homes>>
       /\ pc' = IF loc.isIsolated THEN "e_removeall" ELSE "e_rmi425"
  /\ UNCHANGED <<installed, homeSet, images, files, now, containerRuntime,
                 containers, wf, tries, spinVars, msgs, answers>>

\* variant of EditCreate: the cleanup of step e classifies the container
\* again, from the filesystem the creation has left
EditCreateReclassifies ==
  /\ pc = "e_create"
  /\ \E ok \in BOOLEAN :
       /\ cmds' = Append(cmds, Cmd(407, "distrobox-create", EditArgs, ok))
       /\ loc' = [loc EXCEPT !.args = EditArgs]
       /\ IF ok THEN Created(loc.selectedContainer.Name, EditArgs)
          ELSE UNCHANGED <<envContainers, homes>>
       /\ pc' = IF ok
                THEN (IF getIsolatedHomePath(loc.selectedContainer.Name).path \in homes'
                      THEN "e_removeall" ELSE "e_rmi425")
                ELSE "e_send409"
  /\ UNCHANGED <<installed, homeSet, images, files, now, containerRuntime,
                 containers, wf, tries, spinVars, msgs, answers>>

\* d. runCommand("distrobox-create", args...)
EditCreate ==
  /\ pc = "e_create"
  /\ \E ok \in BOOLEAN :
       /\ cmds' = Append(cmds, Cmd(407, "distrobox-create", EditArgs, ok))
       /\ loc' = [loc EXCEPT !.args = EditArgs]
       /\ IF ok THEN Created(loc.selectedContainer.Name, EditArgs)
          ELSE UNCHANGED <<envContainers, homes>>
       /\ pc' = IF ok THEN (IF loc.isIsolated THEN "e_removeall" ELSE "e_rmi425")
                ELSE "e_send409"
  /\ UNCHANGED <<installed, homeSet, images, files, now, containerRuntime,
                 containers, wf, tries, spinVars, msgs, answers>>

\* variant of EditCreateFailed: the temp image is cleaned up as after a
\* failed removal
EditCreateFailedCleansUp ==
  /\ pc = "e_send409"
  /\ SendDone
  /\ msgs' = msgs \o
        << logError("Failed to create the new %s container.", <<loc.targetType>>),
           logInfo("Temporary image: %s", <<loc.tempImageName>>) >>
  /\ pc' = "e_rmi395"
  /\ UNCHANGED <<envVars, now, containerRuntime, containers, wf, loc, tries, cmds, answers>>

\* lines 409-414: the creation failed
EditCreateFailed ==
  /\ pc = "e_send409"
  /\ SendDone
  /\ msgs' = msgs \o
        << logError("Failed to create the new %s container.", <<loc.targetType>>),
           logError("The temporary image and data have been kept for manual recovery.", <<>>),
           logInfo("Temporary image: %s", <<loc.tempImageName>>) >>
  /\ Return
  /\ UNCHANGED <<envVars, now, containerRuntime, containers, wf, cmds, answers>>

\* e. os.RemoveAll(isolatedHomePath) of a container that was isolated
EditRemoveHome ==
  /\ pc = "e_removeall"
  /\ \E ok \in BOOLEAN :
       /\ cmds' = Append(cmds, Cmd(419, "os.RemoveAll", <<loc.isolatedHomePath>>, ok))
       /\ IF ok
          THEN /\ homes' = homes \ {loc.isolatedHomePath}
               /\ UNCHANGED msgs
          ELSE /\ msgs' = msgs \o
                     << logWarning("Failed to delete the old isolated home directory: %s",
                                   <<loc.isolatedHomePath>>),
                        logWarning("You may want to remove it manually.", <<>>) >>
               /\ UNCHANGED homes
  /\ pc' = "e_rmi425"
  /\ UNCHANGED <<installed, homeSet, envContainers, images, files, now, containerRuntime,
                 containers, wf, loc, tries, spinVars, answers>>

\* line 425: runCommand(containerRuntime, "rmi", tempImageName), result dropped
EditRmi ==
  /\ pc = "e_rmi425"
  /\ \E ok \in BOOLEAN :
       /\ cmds' = Append(cmds, Cmd(425, containerRuntime, <<"rmi", loc.tempImageName>>, ok))
       /\ images' = IF ok THEN images \ {loc.tempImageName} ELSE images
  /\ pc' = "e_send427"
  /\ UNCHANGED <<installed, homeSet, envContainers, files, homes, now, containerRuntime,
                 containers, wf, loc, tries, spinVars, msgs, answers>>

\* lines 427-429
EditDone ==
  /\ pc = "e_send427"
  /\ SendDone
  /\ msgs' = Append(msgs, logSuccess("Container '%s' successfully converted to %s!",
                                     <<loc.selectedContainer.Name, loc.targetType>>))
  /\ Return
  /\ UNCHANGED <<envVars, now, containerRuntime, containers, wf, cmds, answers>>

handleEdit ==
  \/ EditSelect \/ EditConfirm \/ EditConfirmAgain \/ EditStop \/ EditStopFailed
  \/ EditCommit \/ EditCommitFailed \/ EditRemove \/ EditRemoveFailed
  \/ EditRemoveCleanup \/ EditCreate \/ EditCreateFailed \/ EditRemoveHome
  \/ EditRmi \/ EditDone

(***************************************************************************)
(* handleDelete                                                            *)
(***************************************************************************)
\* 1. selectItem on the container list
DeleteSelect ==
  /\ pc = "d_select"
  /\ \E line \in NumberLines :
       LET r == selectItem(line, Len(containers)) IN
       IF r.retry THEN Reprompt(Len(containers))
       ELSE /\ IF r.val = 0
               THEN /\ ReturnAtOnce
                    /\ UNCHANGED msgs
               ELSE IF r.val \notin 1..Len(containers)
               THEN /\ IndexPanic
                    /\ UNCHANGED msgs
               ELSE /\ loc' = [loc EXCEPT !.containerIndex = r.val,
                                         !.selectedContainer = containers[r.val]]
                    /\ msgs' = Append(msgs, logWarning("You are about to permanently delete the container '%s'.",
                                                       <<containers[r.val].Name>>))
                    /\ pc' = "d_confirm"
                    /\ tries' = 0
            /\ UNCHANGED <<envVars, now, containerRuntime, containers, wf,
                           spinVars, cmds, answers>>

\* variant of DeleteConfirm: the answer is read and not looked at
DeleteConfirmIgnored ==
  /\ pc = "d_confirm"
  /\ \E a \in Answers :
       /\ answers' = Append(answers, a)
       /\ msgs' = Append(msgs, logInfo("Deleting '%s'...", <<loc.selectedContainer.Name>>))
       /\ StartSpinner
       /\ pc' = "d_rm"
       /\ UNCHANGED <<loc, tries>>
  /\ UNCHANGED <<envVars, now, containerRuntime, containers, wf, cmds>>

\* 2. the confirmation, then lines 456-458
DeleteConfirm ==
  /\ pc = "d_confirm"
  /\ \E a \in Answers :
       /\ answers' = Append(answers, a)
       /\ IF ~confirmAction(a)
          THEN /\ msgs' = Append(msgs, logInfo("Deletion cancelled by user.", <<>>))
               /\ Return
               /\ UNCHANGED spinVars
          ELSE /\ msgs' = Append(msgs, logInfo("Deleting '%s'...", <<loc.selectedContainer.Name>>))
               /\ StartSpinner
               /\ pc' = "d_rm"
               /\ UNCHANGED <<loc, tries>>
  /\ UNCHANGED <<envVars, now, containerRuntime, containers, wf, cmds>>

\* 3. runCommand("distrobox-rm", name, "--force")
DeleteRemove ==
  /\ pc = "d_rm"
  /\ \E ok \in BOOLEAN :
       /\ cmds' = Append(cmds, Cmd(459, "distrobox-rm", <<loc.selectedContainer.Name, "--force">>, ok))
       /\ loc' = [loc EXCEPT !.err = ~ok]
       /\ envContainers' = IF ok THEN envContainers \ {loc.selectedContainer.Name}
                           ELSE envContainers
  /\ pc' = "d_send460"
  /\ UNCHANGED <<installed, homeSet, images, files, homes, now, containerRuntime,
                 containers, wf, tries, spinVars, msgs, answers>>

\* lines 460-470
DeleteDone ==
  /\ pc = "d_send460"
  /\ SendDone
  /\ msgs' = IF loc.err
             THEN msgs \o << logError("Failed to delete container '%s'.", <<loc.selectedContainer.Name>>),
                             logError("command '%s' failed", <<"distrobox-rm">>) >>
             ELSE Append(msgs, logSuccess("Container '%s' has been deleted.",
                                          <<loc.selectedContainer.Name>>))
  /\ Return
  /\ UNCHANGED <<envVars, now, containerRuntime, containers, wf, cmds, answers>>

handleDelete == DeleteSelect \/ DeleteConfirm \/ DeleteRemove \/ DeleteDone

(***************************************************************************)
(* Specification                                                           *)
(***************************************************************************)
Next ==
  \/ Sleep
  \/ checkDependencies
  \/ getContainers
  \/ handleUserChoice
  \/ handleBackup
  \/ handleRestore
  \/ handleEdit
  \/ handleDelete

Spec == Init /\ [][Next]_vars

(***************************************************************************)
(* A handler keeps running: inside a handler the main goroutine takes its  *)
(* next step whenever it has one, since every external command, every read *)
(* of the keyboard and every time.Sleep returns, and a send on a done      *)
(* channel completes when the spinner is there to receive it.              *)
(***************************************************************************)
HandlerStep == handleBackup \/ handleRestore \/ handleEdit \/ handleDelete \/ Sleep

SpecLive == Spec /\ WF_vars(HandlerStep)

(***************************************************************************)
(* getContainers on any output of distrobox-list: the process is started   *)
(* as in Init, and the listing command returns any sequence of at most     *)
(* MaxRows of the rows below, with or without an error.                    *)
(***************************************************************************)
Rows == {HeaderRow, SeparatorRow, DataRow, ShortRow, SpacedRow, LogRow, SentinelRow}

RECURSIVE SeqsUpTo(_, _)
SeqsUpTo(S, n) ==
  IF n = 0 THEN {<<>>}
  ELSE LET shorter == SeqsUpTo(S, n - 1)
       IN shorter \cup {Append(q, x) : q \in shorter, x \in S}

AnyListOutcomes == {ListResult(e, o, <<>>) : e \in BOOLEAN, o \in SeqsUpTo(Rows, MaxRows)}

getContainersAny == ListStep(AnyListOutcomes)

ListNext == checkDependencies \/ getContainersAny

SpecList == Init /\ [][ListNext]_vars

(***************************************************************************)
(* Two instances of the tool on one host: while this process runs a        *)
(* Backup, a second process runs lines 169-175 of its own Backup of one of *)
(* the containers, reading the same clock and committing to the same       *)
(* container runtime.                                                      *)
(***************************************************************************)
OtherBackupCommit ==
  /\ wf = "backup" /\ pc \in {"b_stat", "b_commit"}
  /\ now <= MaxTime
  /\ \E n \in envContainers :
       images' = images \cup {TempImageName("distrobox-backup-", IdOf(n), now)}
  /\ UNCHANGED <<installed, homeSet, envContainers, files, homes, now, containerRuntime,
                 containers, pc, wf, loc, tries, spinVars, answers, cmds, msgs>>

NextTwo == Next \/ OtherBackupCommit

SpecTwo == Init /\ [][NextTwo]_vars

(***************************************************************************)
(* Vocabulary of the properties                                            *)
(***************************************************************************)
\* the main goroutine is at a "done <- true"
SendPcs ==
  { "b_send177", "b_send187", "b_send198", "b_send203", "r_send229", "r_send288",
    "r_send303", "e_send374", "e_send384", "e_send393", "e_send409", "e_send427",
    "d_send460" }

\* the main goroutine waits in a send that no goroutine will ever receive
Blocked == pc \in SendPcs /\ spinner # "running"

\* the handler has returned to the loop of main, its output still on screen
Returned(w) == wf = w /\ pc = "loop"

\* the handler can take no further step
AtRest(w) == wf = w /\ (pc = "loop" \/ Blocked)

Ran(line) == \E i \in 1..Len(cmds) : cmds[i].line = line
Succeeded(line) == \E i \in 1..Len(cmds) : cmds[i].line = line /\ cmds[i].ok
Failed(line) == \E i \in 1..Len(cmds) : cmds[i].line = line /\ ~cmds[i].ok
IsRmi(c) == c.args # <<>> /\ c.args[1] = "rmi"
RmiCount == Cardinality({i \in 1..Len(cmds) : IsRmi(cmds[i])})

Printed(lvl, text, a) == \E i \in 1..Len(msgs) : msgs[i] = Msg(lvl, text, a)
PrintedLevel(lvl, text) == \E i \in 1..Len(msgs) : msgs[i].lvl = lvl /\ msgs[i].text = text
\* a warning names the artifact
WarnedAbout(artifact) ==
  \E i \in 1..Len(msgs) :
    /\ msgs[i].lvl = "WARN"
    /\ \E k \in 1..Len(msgs[i].args) : msgs[i].args[k] = artifact

BackupSuccess == PrintedLevel("SUCCESS", "Backup for '%s' completed successfully!")
RestoreSuccess == PrintedLevel("SUCCESS", "Container '%s' restored successfully!")
EditSuccess == PrintedLevel("SUCCESS", "Container '%s' successfully converted to %s!")

Affirmative(a) == a \in {"y", "Y"}

(***************************************************************************)
(* Properties                                                              *)
(***************************************************************************)

\* C1: when the commit and the save of a Backup succeed and only the final
\* rmi fails, the workflow comes to rest having reported success and having
\* warned with the name of the temp image left behind.
C1_BackupRmiFailureReportsSuccess ==
  (AtRest("backup") /\ Succeeded(175) /\ Succeeded(185) /\ Failed(196)) =>
     /\ BackupSuccess
     /\ WarnedAbout(loc.tempImageName)

\* C2: the completion signal of every spinner is sent exactly once: the main
\* goroutine never sends on a channel whose spinner has already received,
\* and when a handler returns every spinner it started has received its
\* signal and has terminated.
C2_SignalSentExactlyOnce ==
  /\ pc \in SendPcs => spinner = "running"
  /\ pc = "loop" => (spinner # "running" /\ signals = spawned)

\* C3: in Edit, once stop, commit and force-remove have succeeded and the
\* creation has failed, the original container is gone, no rmi is issued and
\* the temp image is still there, the old isolated home (if any) is still
\* there, and on return the temp image identifier has been printed.
C3_EditCreateFailureKeepsImage ==
  (wf = "edit" /\ Succeeded(372) /\ Succeeded(382) /\ Succeeded(391) /\ Failed(407)) =>
     /\ pc \in {"e_send409", "sleep", "loop"}
     /\ loc.selectedContainer.Name \notin envContainers
     /\ RmiCount = 0
     /\ loc.tempImageName \in images
     /\ ~Ran(419)
     /\ loc.isIsolated => loc.isolatedHomePath \in homes
     /\ pc = "loop" => /\ Printed("INFO", "Temporary image: %s", <<loc.tempImageName>>)
                       /\ ~EditSuccess

C3_Witness ==
  /\ Returned("edit") /\ Succeeded(391) /\ Failed(407)
  /\ loc.isIsolated /\ loc.isolatedHomePath \in homes

\* C4: an Edit of an isolated container issues a command (or starts its
\* spinner) only after two affirmative answers, and an Edit in which an answer
\* was not affirmative has returned without any command or deletion.
C4_EditDoubleConfirmation ==
  (wf = "edit" /\ loc.isIsolated) =>
     /\ (cmds # <<>> \/ pc = "e_stop" \/ spawned > 0) =>
           /\ Len(answers) = 2
           /\ Affirmative(answers[1]) /\ Affirmative(answers[2])
     /\ (\E i \in 1..Len(answers) : ~Affirmative(answers[i])) =>
           /\ pc \in {"sleep", "loop"}
           /\ cmds = <<>>
           /\ loc.isolatedHomePath \in homes
           /\ loc.selectedContainer.Name \in envContainers

C4_Witness ==
  /\ wf = "edit" /\ loc.isIsolated /\ Succeeded(372)
  /\ answers = <<"y", "Y">>

C4_WitnessDeclined ==
  /\ Returned("edit") /\ loc.isIsolated
  /\ Len(answers) = 2 /\ ~Affirmative(answers[2])

\* C5: a home directory disappears only in the step of Edit that follows a
\* successful creation command of the same execution, and it is the old
\* isolated home of the edited container; as long as the creation has not
\* succeeded, the old isolated home is there and no deletion was tried.
C5_HomeDeletedOnlyAfterCreate ==
  /\ []((wf = "edit" /\ loc.isIsolated /\ ~Succeeded(407)) =>
           (loc.isolatedHomePath \in homes /\ ~Ran(419)))
  /\ [][ (\E p \in homes : p \notin homes') =>
           /\ wf = "edit"
           /\ cmds # <<>> /\ cmds[Len(cmds)].line = 407 /\ cmds[Len(cmds)].ok
           /\ homes' = homes \ {loc.isolatedHomePath} ]_vars

C5_Witness ==
  /\ wf = "edit" /\ pc = "e_rmi425" /\ Succeeded(407) /\ Succeeded(419)
  /\ loc.isolatedHomePath \notin homes

\* C6: whenever a best-effort cleanup has failed after the primary goal
\* succeeded (the final rmi of Backup, the rmi of Restore after the creation,
\* the rmi or the home deletion of Edit), the workflow comes to rest having
\* reported success and having warned with the name of what was left.
C6_RetainedArtifactsNamed ==
  /\ (AtRest("backup") /\ Failed(196)) => (BackupSuccess /\ WarnedAbout(loc.tempImageName))
  /\ (AtRest("restore") /\ Failed(313)) => (RestoreSuccess /\ WarnedAbout(loc.loadedImage))
  /\ (AtRest("edit") /\ Failed(425)) => (EditSuccess /\ WarnedAbout(loc.tempImageName))
  /\ (AtRest("edit") /\ Failed(419)) => (EditSuccess /\ WarnedAbout(loc.isolatedHomePath))

\* C7: when commit, save and rmi of a Backup all succeed, the handler is
\* never blocked, and once it has returned the archive at
\* destinationDir/name.tar holds the committed image, the temp image is no
\* longer in the runtime, and success has been printed.
C7_BackupRoundTrip ==
  (wf = "backup" /\ Succeeded(175) /\ Succeeded(185) /\ Succeeded(196)) =>
     /\ ~Blocked
     /\ pc = "loop" =>
          /\ Stat(loc.destDir \o "/" \o loc.backupName \o ".tar") = loc.tempImageName
          /\ loc.tempImageName \notin images
          /\ BackupSuccess

C7_Witness ==
  /\ Returned("backup") /\ Succeeded(175) /\ Succeeded(185) /\ Succeeded(196)
  /\ loc.destDir = "/tmp/b" /\ loc.backupName = "dev1"
  /\ Stat("/tmp/b/dev1.tar") = loc.tempImageName

C8_WitnessRemoved ==
  /\ Returned("backup") /\ Failed(185) /\ Succeeded(190)

\* C9: when the target archive exists, Backup issues commit and save only
\* after an affirmative answer to the overwrite prompt; an answer that is not
\* affirmative ends the handler with no command issued and every file and
\* image as it was.
C9_BackupOverwriteGate ==
  /\ [](wf = "backup" =>
          /\ (answers # <<>> /\ ~Affirmative(answers[1])) =>
                (pc \in {"sleep", "loop"} /\ cmds = <<>>)
          /\ (cmds # <<>> /\ ~Succeeded(185) /\ Stat(loc.backupFile) # NoFile) =>
                (Len(answers) = 1 /\ Affirmative(answers[1])))
  /\ [][ (pc = "b_stat" /\ Stat(loc.backupFile) # NoFile) =>
           /\ Len(answers') = 1
           /\ ~Affirmative(answers'[1]) =>
                (pc' = "sleep" /\ files' = files /\ images' = images /\ cmds' = <<>>) ]_vars

C9_Witness ==
  /\ wf = "backup" /\ Succeeded(185) /\ answers = <<"Y">>

C9_WitnessDeclined ==
  /\ Returned("backup") /\ answers = <<"">> /\ Stat(loc.backupFile) = OldContent

\* C10: when the load and the extraction of a Restore succeed and the
\* creation command fails, the handler returns without success, no rmi is
\* issued, the loaded image is still there, and its identifier is printed.
C10_RestoreCreateFailureKeepsImage ==
  (wf = "restore" /\ Failed(302)) =>
     /\ pc \in {"r_send303", "sleep", "loop"}
     /\ Succeeded(228) /\ loc.loadedImage # ""
     /\ RmiCount = 0
     /\ loc.loadedImage \in images
     /\ ~RestoreSuccess
     /\ pc = "loop" =>
          Printed("INFO", "The loaded image '%s' was kept. You can try creating the container again manually or remove the image.",
                  <<loc.loadedImage>>)

C10_Witness ==
  /\ Returned("restore") /\ Failed(302) /\ loc.loadedImage = ArchiveImage

\* the line holds the marker once, and after it nothing but the identifier
\* id with blanks around it
MarkerLineFor(line, id) ==
  \E k \in 1..Len(line), m \in 1..Len(line) :
    /\ k < m /\ line[k] = Marker /\ line[m] = id /\ id \notin {Marker, Space}
    /\ \A j \in 1..Len(line) : j # k => line[j] # Marker
    /\ \A j \in (k + 1)..Len(line) : j # m => line[j] = Space

\* no line of the output holds the marker
NoMarkerLine(out) == \A i \in 1..Len(out) : ~Contains(out[i], Marker)

\* C11: once the load of a Restore has succeeded and its output has been
\* read, if one line of the output holds the marker followed by an identifier
\* and no other line holds the marker, the loaded image is exactly that
\* identifier, wherever the line stands; if no line holds the marker, the
\* handler returns and no creation command is issued.
C11_MarkerExtraction ==
  (wf = "restore" /\ Succeeded(228) /\ pc # "r_send229") =>
     /\ \A i \in 1..Len(loc.output) : \A m \in 1..Len(loc.output[i]) :
          ( /\ MarkerLineFor(loc.output[i], loc.output[i][m])
            /\ \A j \in 1..Len(loc.output) : j # i => ~Contains(loc.output[j], Marker) )
          => loc.loadedImage = loc.output[i][m]
     /\ NoMarkerLine(loc.output) =>
          /\ pc \in {"sleep", "loop"}
          /\ loc.loadedImage = ""
          /\ ~Ran(302)
          /\ Len(cmds) = 1

C11_Witness ==
  /\ wf = "restore" /\ pc = "r_name" /\ Len(loc.output) = 3
  /\ MarkerLineFor(loc.output[3], ArchiveImage)
  /\ loc.output[3][Len(loc.output[3])] = Space
  /\ loc.loadedImage = ArchiveImage

C11_WitnessMiddle ==
  /\ wf = "restore" /\ pc = "r_name" /\ Len(loc.output) = 3
  /\ MarkerLineFor(loc.output[2], ArchiveImage) /\ loc.output[2][1] # Marker
  /\ loc.loadedImage = ArchiveImage

C11_WitnessAbort ==
  /\ Returned("restore") /\ Succeeded(228) /\ loc.output # <<>> /\ NoMarkerLine(loc.output)

\* the number of "|"-delimited fields of a line
Fields(line) == Cardinality({i \in 1..Len(line) : line[i] = "|"}) + 1

\* a header row: a delimited row that holds the column names ID and NAME
IsHeader(line) ==
  /\ ContainsStr(line, <<"|">>)
  /\ ContainsStr(line, <<"I", "D">>) /\ ContainsStr(line, <<"N", "A", "M", "E">>)

\* the rows of the output that are neither header rows nor rows of fewer
\* than four fields
RowsThatCount(out) == {i \in 1..Len(out) : ~IsHeader(out[i]) /\ Fields(out[i]) >= 4}

\* C12: when distrobox-list succeeds, the header row, a separator row
\* "--|--|--|--" and the data row "1|dev|Up|img:latest" give exactly the
\* one container {id "1", name "dev", image "img:latest"}; and whatever the
\* output, there is no error and no more containers than rows that are
\* neither header rows nor rows of fewer than four fields.
C12_RegistryParse ==
  (pc \in {"menu", "exit1"} /\ containerRuntime # "" /\ ~loc.err) =>
     /\ pc = "menu"
     /\ Len(containers) <= Cardinality(RowsThatCount(loc.out))
     /\ loc.out = <<HeaderRow, SeparatorRow, DataRow>> =>
          containers = << [ID |-> "1", Name |-> "dev", Image |-> "img:latest"] >>

\* the part of C12 that does not involve the separator row
C12_SkippedRows ==
  (pc \in {"menu", "exit1"} /\ containerRuntime # "" /\ ~loc.err) =>
     /\ pc = "menu"
     /\ Len(containers) <= Cardinality(RowsThatCount(loc.out))
     /\ loc.out = <<HeaderRow, ShortRow, DataRow>> =>
          containers = << [ID |-> "1", Name |-> "dev", Image |-> "img:latest"] >>
     /\ loc.out = <<HeaderRow, SeparatorRow, DataRow>> =>
          containers = << [ID |-> "--", Name |-> "--", Image |-> "--"],
                          [ID |-> "1", Name |-> "dev", Image |-> "img:latest"] >>

\* the listing command has just returned
Listed == pc \in {"menu", "exit1"} /\ containerRuntime # ""

C13_WitnessError ==
  /\ pc = "exit1" /\ loc.err /\ loc.out = <<>> /\ loc.stderr = <<SentinelRow, <<>> >>

\* the isolation state of the edited container in the current filesystem
Classified == isContainerIsolated(loc.selectedContainer.Name)

\* Edit consults the isolation state: at the second-confirmation gate, and
\* after a successful creation, where it has just decided whether the old
\* home is deleted
ConsultsIsolation ==
  /\ wf = "edit"
  /\ \/ pc = "e_confirm1"
     \/ pc = "e_removeall"
     \/ pc = "e_rmi425" /\ ~Ran(419)

\* C14: whenever an Edit consults the isolation state of the container (the
\* second-confirmation gate, the decision to delete the old home after the
\* creation), the value it uses is the classification of the container in
\* the filesystem as it is then, never one obtained before the filesystem
\* changed.
C14_NoCachedClassification ==
  ConsultsIsolation => loc.isIsolated = Classified.isIsolated

\* C14 as amended: an Edit classifies the container once, when it is
\* selected, from the filesystem as it is then; that one result fixes the
\* target type, decides whether a second confirmation is asked and whether
\* the old home is deleted after the creation, and is kept unchanged until
\* the handler returns, whatever the filesystem has become.
C14_ClassifiedOnce ==
  /\ [](wf = "edit" /\ pc # "e_select" /\ loc.selectedContainer # NoContainer =>
          /\ loc.targetType = (IF loc.isIsolated THEN "STANDARD" ELSE "ISOLATED")
          /\ loc.isolatedHomePath =
               (IF loc.isIsolated THEN HomePath(UserHome, loc.selectedContainer.Name) ELSE "")
          /\ pc = "e_confirm2" => loc.isIsolated
          /\ spawned > 0 => Len(answers) = (IF loc.isIsolated THEN 2 ELSE 1)
          /\ pc = "e_removeall" => loc.isIsolated
          /\ Ran(419) => loc.isIsolated
          /\ Ran(425) => (Ran(419) <=> loc.isIsolated))
  /\ [][ (pc = "e_select" /\ pc' = "e_confirm1") =>
           /\ loc'.isIsolated = Classified'.isIsolated
           /\ loc'.isolatedHomePath = Classified'.path ]_vars
  /\ [][ (wf = "edit" /\ pc # "e_select" /\ wf' = "edit") =>
           /\ loc'.isIsolated = loc.isIsolated
           /\ loc'.isolatedHomePath = loc.isolatedHomePath
           /\ loc'.targetType = loc.targetType ]_vars

\* a Standard container has become Isolated and the cleanup still goes by
\* the classification made when it was selected
C14_Witness ==
  /\ wf = "edit" /\ pc = "e_rmi425" /\ Succeeded(407)
  /\ ~loc.isIsolated /\ Classified.isIsolated

C15_WitnessDeclined ==
  /\ Returned("delete") /\ answers = <<"yes">> /\ cmds = <<>>

C15_WitnessDeleted ==
  /\ Returned("delete") /\ Succeeded(459) /\ loc.selectedContainer.Name \notin envContainers

\* a command the tool cannot do without is not installed
MissingDependency ==
  "distrobox" \notin installed \/ {"podman", "docker"} \cap installed = {}

\* C16: when distrobox is not installed, or neither podman nor docker is,
\* the only step the process takes is the one from its start to its exit
\* with a fatal error: no listing is fetched, no runtime is selected and no
\* handler starts; and whenever a handler is running or has returned, the
\* selected runtime is an installed one and distrobox is installed.
C16_DependencyGate ==
  /\ [](MissingDependency =>
          /\ pc \in {"main", "exit1"}
          /\ wf = "none" /\ containers = <<>> /\ loc = NoLocals /\ containerRuntime = ""
          /\ pc = "exit1" => \E i \in 1..Len(msgs) : msgs[i].lvl = "ERROR")
  /\ [](wf # "none" =>
          /\ containerRuntime \in {"podman", "docker"} \cap installed
          /\ "distrobox" \in installed)
  /\ [][MissingDependency => (pc = "main" /\ pc' = "exit1")]_vars

C16_Witness ==
  /\ pc = "exit1" /\ installed = {"distrobox"} /\ containerRuntime = ""

C16_WitnessNoDistrobox ==
  /\ pc = "exit1" /\ installed = {"podman", "docker"}

C16_WitnessDocker ==
  /\ wf = "backup" /\ Succeeded(175) /\ containerRuntime = "docker" /\ "podman" \notin installed

\* the operation a call stands for: the program run, or the subcommand given
\* to the container runtime
Operation(c) ==
  IF c.name \in {"podman", "docker"} THEN c.args[1] ELSE c.name

\* C17: within one execution of a handler no operation is issued twice: each
\* of commit, save, load, stop, distrobox-create, distrobox-rm, the home
\* deletion and the removal of the temp or loaded image appears at most once
\* among the calls made, so none is issued again after it has failed.
C17_NoRetries ==
  wf # "none" =>
     /\ \A i \in 1..Len(cmds) : \A j \in 1..Len(cmds) :
          i # j => Operation(cmds[i]) # Operation(cmds[j])
     /\ \A i \in 1..Len(cmds) :
          Operation(cmds[i]) \in {"commit", "save", "load", "stop", "rmi", "distrobox-create",
                                  "distrobox-rm", "os.RemoveAll"}
     /\ RmiCount <= 1

C17_Witness ==
  /\ Returned("edit") /\ Len(cmds) = 6 /\ Failed(419) /\ Failed(425)

C17_WitnessFailed ==
  /\ Returned("backup") /\ cmds # <<>> /\ Failed(175)

\* C18: the name a Backup has just generated for its temp image, from the
\* prefix, the container id and the Unix time in seconds, is not the name
\* of a temp image of any other invocation, earlier in this process or in
\* another process: no image of that name exists when the commit is about
\* to be issued.
C18_TempImageNamesUnique ==
  (wf = "backup" /\ pc = "b_commit") => loc.tempImageName \notin images

\* the calls whose failure ends the workflow: commit and save of Backup, load
\* and creation of Restore, stop, commit, removal and creation of Edit, the
\* removal of Delete
AbortLines == {175, 185, 228, 302, 372, 382, 391, 407, 459}

\* the cleanup that follows the failure of such a call: the rmi after a
\* failed save, the rmi after a failed removal in Edit
Compensation(line) ==
  CASE line = 185 -> {190}
    [] line = 391 -> {395}
    [] OTHER -> {}

\* C20: within one execution of a handler the calls are issued in the order
\* of the steps, each only after every earlier call whose failure ends the
\* workflow has succeeded; after the first such failure the only call that
\* can follow is the cleanup of the failed step, and the handler returns
\* without reporting success.  A failed commit of Backup is the only call of
\* its execution, a failed stop of Edit likewise, and a failed commit of
\* Edit follows the stop alone.
C20_HaltOnAbort ==
  wf # "none" =>
     /\ \A i \in 1..Len(cmds) : \A j \in 1..Len(cmds) :
          i < j =>
             /\ cmds[i].line < cmds[j].line
             /\ (cmds[i].line \in AbortLines /\ ~cmds[i].ok) =>
                   cmds[j].line \in Compensation(cmds[i].line)
     /\ (\E i \in 1..Len(cmds) : cmds[i].line \in AbortLines /\ ~cmds[i].ok) =>
          /\ pc \in SendPcs \cup {"b_rmi190", "e_rmi395", "sleep", "loop"}
          /\ ~BackupSuccess /\ ~RestoreSuccess /\ ~EditSuccess
     /\ Failed(175) => Len(cmds) = 1
     /\ Failed(372) => Len(cmds) = 1
     /\ Failed(382) => (Len(cmds) = 2 /\ cmds[1].line = 372)

C20_Witness ==
  /\ Returned("edit") /\ Failed(391) /\ Ran(395) /\ Len(cmds) = 4

C20_WitnessStop ==
  /\ Returned("edit") /\ Failed(372)

C20_WitnessCommit ==
  /\ Returned("backup") /\ Failed(175) /\ images = {}

C21_WitnessRemoved ==
  /\ Returned("edit") /\ Succeeded(382) /\ Failed(391) /\ Succeeded(395)
  /\ loc.tempImageName \notin images

\* the calls of distrobox-create made by the running handler
Creations == {i \in 1..Len(cmds) : cmds[i].name = "distrobox-create"}

\* the name and the image the creation of the running handler is for
NewName == IF wf = "restore" THEN loc.containerName ELSE loc.selectedContainer.Name
NewImage == IF wf = "restore" THEN loc.loadedImage ELSE loc.tempImageName

\* the target mode is Isolated: option 2 of Restore, which is announced as
\* ISOLATED, or the Edit of a container classified as not isolated
TargetIsolated ==
  IF wf = "restore"
  THEN PrintedLevel("INFO", "Creating new ISOLATED container '%s'...")
  ELSE ~loc.isIsolated

\* the arguments the creation has to carry
ExpectedArgs ==
  <<"--name", NewName, "--image", NewImage>>
    \o (IF TargetIsolated THEN <<"--home", HomePath(UserHome, NewName)>> ELSE <<>>)

\* C22: in Restore and in Edit every creation command carries the name of
\* the container and the image (the loaded image, the temp image), and
\* carries --home exactly when the target mode is Isolated, with the
\* isolated home path of the new container's name as its value; in Edit the
\* target mode is the complement of the classification of the source.
C22_CreationArguments ==
  wf \in {"restore", "edit"} =>
     /\ \A i \in Creations :
          cmds[i].args = ExpectedArgs
     /\ wf = "edit" /\ loc.selectedContainer # NoContainer =>
          loc.targetType = IF loc.isIsolated THEN "STANDARD" ELSE "ISOLATED"

\* C22, where os.UserHomeDir succeeds: the same statement holds
C22_CreationArgumentsWithHome == homeSet => C22_CreationArguments

\* what each line of NumberLines says: nothing, a whole number, or neither
BlankLines == { <<>>, <<" ">> }
NumberTyped(line) ==
  CASE line = <<"0">> -> 0
    [] line = <<"1">> -> 1
    [] line \in { <<"2">>, <<" ", "2", " ">> } -> 2
    [] line = <<"3">> -> 3
    [] line = <<"4">> -> 4
    [] line = <<"5">> -> 5
    [] line = <<"6">> -> 6
    [] line = <<"-", "1">> -> 0 - 1
    [] line = <<"1", "2">> -> 12
Malformed == { <<"x">> }

\* the prompts of selectItem and the number of items each one offers
SelectPcs == {"b_select", "e_select", "d_select", "r_type"}
MaxAt(p) == IF p = "r_type" THEN 2 ELSE Len(containers)

\* the handler has taken an element of the container list
Indexed == wf \in {"backup", "edit", "delete"} /\ loc.selectedContainer # NoContainer

\* C23: selectItem shows its prompt again on every input that is malformed
\* or out of range and returns only 0, on a blank line, or the number typed
\* when it is one of 1..max; a rejected input changes nothing but the screen
\* and leaves the handler at the same prompt; so the index Backup, Edit and
\* Delete apply to the container list is within its bounds, and the process
\* never panics on it.
C23_SelectionInBounds ==
  /\ [](\A line \in NumberLines : \A max \in {Len(containers), 2} :
          LET r == selectItem(line, max) IN
          /\ line \in BlankLines => (~r.retry /\ r.val = 0)
          /\ line \in Malformed => r.retry
          /\ line \notin BlankLines \cup Malformed =>
               IF NumberTyped(line) \in 1..max
               THEN ~r.retry /\ r.val = NumberTyped(line)
               ELSE r.retry)
  /\ [](pc # "panic")
  /\ [](Indexed =>
          /\ loc.containerIndex \in 1..Len(containers)
          /\ loc.selectedContainer = containers[loc.containerIndex])
  /\ [](tries > 0 => pc \in SelectPcs)
  /\ [][ tries' > tries =>
           /\ pc \in SelectPcs /\ pc' = pc /\ wf' = wf /\ loc' = loc
           /\ UNCHANGED <<envVars, containers, cmds, spinVars, answers>>
           /\ msgs' = Append(msgs, logWarning("Invalid input. Please enter a number between 1 and %d.",
                                              <<ToString(MaxAt(pc))>>)) ]_vars

C23_Witness ==
  /\ wf = "delete" /\ pc = "d_confirm" /\ loc.containerIndex = 2 /\ Len(containers) = 2
  /\ PrintedLevel("WARN", "Invalid input. Please enter a number between 1 and %d.")

C23_WitnessReprompt ==
  /\ wf = "restore" /\ pc = "r_type" /\ tries = MaxPrompts

\* the main goroutine is inside a handler, or in the sleep before a return
Running == pc \notin {"main", "loop", "menu", "exit0", "exit1", "panic"}

\* C24: every invocation of Backup, Restore, Edit and Delete gives control
\* back to the loop of main, whatever the outcomes of its commands: no
\* handler waits for ever in a send on the done channel of its spinner.
C24_WorkflowsReturn == Running ~> (pc = "loop")

\* C24, but for the send of line 203 after the send of line 198: every
\* handler gives control back or is blocked there
C24_ReturnsOrBlocksAt203 ==
  Running ~> (pc = "loop" \/ (pc = "b_send203" /\ Blocked /\ Failed(196)))

\* the calls that remove the loaded image of the running Restore
LoadedImageRmis ==
  {i \in 1..Len(cmds) : cmds[i].name = containerRuntime /\ cmds[i].args = <<"rmi", loc.loadedImage>>}

\* C25: once Restore has loaded an image and read its identifier, a return
\* that comes before the creation command (no container name, no type
\* chosen, no user home for an isolated restore) follows exactly one call
\* that removes the loaded image, made as the last call and whatever its
\* outcome; a return after a failed creation follows no removal at all, and
\* no path removes the image twice.
C25_RestoreCancelCleanup ==
  (wf = "restore" /\ loc.loadedImage # "") =>
     /\ Cardinality(LoadedImageRmis) <= 1
     /\ RmiCount = Cardinality(LoadedImageRmis)
     /\ pc \in {"sleep", "loop"} =>
          /\ ~Ran(302) =>
               /\ LoadedImageRmis = {Len(cmds)}
               /\ Len(cmds) = 2
               /\ cmds[2].line = (IF loc.containerName = "" THEN 263
                                  ELSE IF spawned = 1 THEN 275 ELSE 290)
               /\ Ran(290) <=> PrintedLevel("ERROR", "Could not determine user home directory. Aborting isolated restore.")
               /\ ~RestoreSuccess
          /\ Failed(302) => LoadedImageRmis = {}
          /\ LoadedImageRmis = {} => Failed(302)

C25_Witness ==
  /\ Returned("restore") /\ Failed(290) /\ loc.loadedImage \in images /\ ~homeSet

C25_WitnessNoName ==
  /\ Returned("restore") /\ Succeeded(263) /\ loc.loadedImage \notin images

C25_WitnessNoType ==
  /\ Returned("restore") /\ Ran(275) /\ loc.containerName = "box"

C25_WitnessCreateFailed ==
  /\ Returned("restore") /\ Failed(302) /\ RmiCount = 0

\* C26: whenever an Edit of a container classified as isolated has reported
\* success, the isolated home path of that name is gone, and classifying
\* the name again yields Standard, the state the success message announces.
C26_PostEditClassification ==
  (wf = "edit" /\ loc.isIsolated /\ EditSuccess) =>
     /\ loc.targetType = "STANDARD"
     /\ loc.isolatedHomePath \notin homes
     /\ ~isContainerIsolated(loc.selectedContainer.Name).isIsolated

\* C26, where the deletion of the old home has succeeded: the same
\* statement holds
C26_AgreementWhenDeleted == Succeeded(419) => C26_PostEditClassification

\* the lines of the output that hold the marker followed by an identifier
\* that is not blank
IdentifierLines(out) ==
  {i \in 1..Len(out) : \E k \in 1..Len(out[i]) :
     /\ out[i][k] = Marker
     /\ \E m \in (k + 1)..Len(out[i]) : out[i][m] # Space}

\* the load output has been read and Restore has given up on it
GaveUpOnOutput ==
  /\ wf = "restore" /\ Succeeded(228) /\ Len(cmds) = 1 /\ pc \in {"sleep", "loop"}
  /\ PrintedLevel("ERROR", "Could not determine the name of the loaded image. Aborting.")

\* C27: once the load of a Restore has succeeded and its output has been
\* read, Restore goes on exactly when some line of the output holds the
\* marker followed by an identifier that is not blank, and gives up
\* otherwise; a marker line with nothing after it, ahead of a marker line
\* with an identifier, does not keep the identifier from being used.
C27_MarkerExtractionComplete ==
  (wf = "restore" /\ Succeeded(228) /\ pc # "r_send229") =>
     /\ IdentifierLines(loc.output) # {} => (loc.loadedImage # "" /\ ~GaveUpOnOutput)
     /\ IdentifierLines(loc.output) = {} => (loc.loadedImage = "" /\ GaveUpOnOutput)
     /\ \A i \in IdentifierLines(loc.output) :
          (\A j \in IdentifierLines(loc.output) : i <= j) =>
             loc.loadedImage = Concat(TrimSpace(AfterFirst(loc.output[i], Marker)))

\* C27, where the first line that holds the marker also holds an
\* identifier: the same statement holds
C27_CompleteWhenFirstMarkerNamesImage ==
  (\A i \in 1..Len(loc.output) :
      Contains(loc.output[i], Marker) /\ i \notin IdentifierLines(loc.output) =>
        \E j \in IdentifierLines(loc.output) : j < i)
  => C27_MarkerExtractionComplete

====
